---- MODULE Spec2Model ----
(***************************************************************************)
(* The #[time_it] attribute macro of src/lib.rs: the LogLevel argument     *)
(* parser, the expansion of an annotated function into its instrumented    *)
(* form, and the execution of the emitted function.                        *)
(*                                                                         *)
(* Strings are sequences of one-character strings, so that the ASCII       *)
(* case folding of the severity names is computed, not assumed.            *)
(***************************************************************************)
EXTENDS Naturals, Sequences, FiniteSets

VARIABLES
    attr,       \* macro argument tokens (TokenStream `attr`)
    item,       \* the annotated item (TokenStream `item`)
    pc,         \* position in time_it, then in the emitted function
    timed,      \* timed_fn_block (lines 54-66)
    level,      \* result of parsing attr as LogLevel (line 68)
    log_line,   \* log_line (lines 69-85)
    out,        \* the emitted tokens (lines 87-95)
    args,       \* caller-supplied arguments of one call of the emitted fn
    env,        \* bindings in scope, innermost last
    ip,         \* index of the next statement of the emitted body
    bip,        \* index of the next statement of the original body
    polls,      \* how often the pending await was polled
    clock,      \* monotonic clock reading
    result,     \* value the call returned
    log,        \* records received by the tracing sink
    hist        \* events of the call, in order

vars == <<attr, item, pc, timed, level, log_line, out, args, env, bip, polls,
          ip, clock, result, log, hist>>

----------------------------------------------------------------------------
(* Bounds *)
MaxTokens == 5
MaxParams == 2
MaxBodyLen == 2
MaxPolls == 2

----------------------------------------------------------------------------
(* Characters and ASCII case folding (str::eq_ignore_ascii_case). *)

LowerLetters == <<"a","b","c","d","e","f","g","h","i","j","k","l","m",
                  "n","o","p","q","r","s","t","u","v","w","x","y","z">>
UpperLetters == <<"A","B","C","D","E","F","G","H","I","J","K","L","M",
                  "N","O","P","Q","R","S","T","U","V","W","X","Y","Z">>

IsUpper(c) == \E i \in 1..Len(UpperLetters) : UpperLetters[i] = c
IsLower(c) == \E i \in 1..Len(LowerLetters) : LowerLetters[i] = c

to_ascii_lowercase(c) ==
    IF IsUpper(c)
    THEN LowerLetters[CHOOSE i \in 1..Len(UpperLetters) : UpperLetters[i] = c]
    ELSE c

to_ascii_uppercase(c) ==
    IF IsLower(c)
    THEN UpperLetters[CHOOSE i \in 1..Len(LowerLetters) : LowerLetters[i] = c]
    ELSE c

eq_case_sensitive(a, b) == a = b

eq_ignore_ascii_case(a, b) ==
    /\ Len(a) = Len(b)
    /\ \A i \in 1..Len(a) : to_ascii_lowercase(a[i]) = to_ascii_lowercase(b[i])

----------------------------------------------------------------------------
(* enum LogLevel, #[derive(Default, EnumString)], ascii_case_insensitive *)

Trace == <<"T","r","a","c","e">>
Debug == <<"D","e","b","u","g">>
Info  == <<"I","n","f","o">>
Warn  == <<"W","a","r","n">>
Error == <<"E","r","r","o","r">>

LogLevel == <<Trace, Debug, Info, Warn, Error>>

LogLevels == {LogLevel[i] : i \in 1..Len(LogLevel)}

LogLevel_default_info == Info

LogLevel_default == Debug

Ok(v) == [ok |-> TRUE, val |-> v, err |-> "-"]
Err(e) == [ok |-> FALSE, val |-> <<>>, err |-> e]

from_str_or_default(s) ==
    IF \E i \in 1..Len(LogLevel) : eq_ignore_ascii_case(s, LogLevel[i])
    THEN Ok(LogLevel[CHOOSE i \in 1..Len(LogLevel) : eq_ignore_ascii_case(s, LogLevel[i])])
    ELSE Ok(LogLevel_default)

(* EnumString's from_str: the first variant whose name equals s, ASCII     *)
(* case ignored; VariantNotFound otherwise.                                *)
from_str(s) ==
    IF \E i \in 1..Len(LogLevel) : eq_ignore_ascii_case(s, LogLevel[i])
    THEN Ok(LogLevel[CHOOSE i \in 1..Len(LogLevel) :
                /\ eq_ignore_ascii_case(s, LogLevel[i])
                /\ \A j \in 1..(i-1) : ~eq_ignore_ascii_case(s, LogLevel[j])])
    ELSE Err("VariantNotFound")

----------------------------------------------------------------------------
(* Tokens of the macro argument. *)

LitStr(s) == [kind |-> "LitStr", value |-> s]
LitInt    == [kind |-> "LitInt", value |-> <<"5">>]
Ident     == [kind |-> "Ident",  value |-> <<"d","e","b","u","g">>]
Comma     == [kind |-> "Comma",  value |-> <<",">>]

IsLiteral(t) == t.kind \in {"LitStr", "LitInt"}

(* Punctuated::<LitStr, Token![,]>::parse_terminated: values separated by  *)
(* commas, a trailing comma allowed; the values parsed so far are in acc.  *)
RECURSIVE parse_terminated_from(_, _, _)
parse_terminated_from(toks, i, acc) ==
    IF i > Len(toks) THEN Ok(acc)
    ELSE IF toks[i].kind # "LitStr" THEN Err("expected string literal")
    ELSE IF i + 1 > Len(toks) THEN Ok(Append(acc, toks[i]))
    ELSE IF toks[i+1].kind # "Comma" THEN Err("expected ,")
    ELSE parse_terminated_from(toks, i + 2, Append(acc, toks[i]))

parse_terminated(toks) == parse_terminated_from(toks, 1, <<>>)

LogLevel_parse_first_only(toks) ==
    LET punctuated == parse_terminated(toks) IN
    IF ~punctuated.ok THEN Err(punctuated.err)
    ELSE IF Len(punctuated.val) = 0 THEN Ok(LogLevel_default)
    ELSE from_str(punctuated.val[1].value)

(* impl Parse for LogLevel *)
LogLevel_parse(toks) ==
    LET punctuated == parse_terminated(toks) IN
    IF ~punctuated.ok THEN Err(punctuated.err)
    ELSE IF Len(punctuated.val) > 1 THEN Err("Unexpected multiple macro arguments")
    ELSE IF Len(punctuated.val) = 0 THEN Ok(LogLevel_default)
    ELSE from_str(punctuated.val[1].value)

----------------------------------------------------------------------------
(* The annotated item: syn::ItemFn { attrs, vis, sig, block }. *)

I32 == "i32"
StdInstant == "std::time::Instant"
TokioInstant == "tokio::time::Instant"

Param(n, t) == [name |-> n, ty |-> t]

Var(x) == [op |-> "var", x |-> x, y |-> x]
Lit == [op |-> "lit", x |-> "7", y |-> "7"]
Add(x, y) == [op |-> "add", x |-> x, y |-> y]

Return(x) == [kind |-> "return", x |-> x]
Try(x) == [kind |-> "try", x |-> x]
Await == [kind |-> "await", x |-> "-"]

Block(stmts, tail) == [stmts |-> stmts, tail |-> tail]

Sig(asyncness, ident, inputs, output) ==
    [asyncness |-> asyncness, ident |-> ident, inputs |-> inputs, output |-> output]

ItemFn(attrs, vis, sig, block) ==
    [kind |-> "fn", attrs |-> attrs, vis |-> vis, sig |-> sig, block |-> block]

ItemStruct ==
    [kind |-> "struct", attrs |-> <<>>, vis |-> "pub",
     sig |-> Sig(FALSE, "S", <<>>, I32), block |-> Block(<<>>, Var("-"))]

(* Name resolution: the innermost binding of a name (innermost last). *)
Bound(scope, n) == \E i \in 1..Len(scope) : scope[i].name = n

Lookup(scope, n) ==
    scope[CHOOSE i \in 1..Len(scope) :
            /\ scope[i].name = n
            /\ \A j \in (i+1)..Len(scope) : scope[j].name # n]

IsInstant(t) == t \in {StdInstant, TokioInstant}

(* Typing of a block in a scope of [name, ty] bindings, against the type   *)
(* the enclosing fn, closure or async block returns.                       *)
ExprType(scope, e) ==
    IF e.op = "lit" THEN I32
    ELSE IF e.op = "var"
    THEN IF Bound(scope, e.x) THEN Lookup(scope, e.x).ty ELSE "error"
    ELSE IF /\ Bound(scope, e.x) /\ Lookup(scope, e.x).ty = I32
            /\ Bound(scope, e.y) /\ Lookup(scope, e.y).ty = I32
         THEN I32 ELSE "error"

StmtTypes(scope, st, output, asyncness) ==
    CASE st.kind = "return" -> ExprType(scope, Var(st.x)) = output
      [] st.kind = "try"    -> ExprType(scope, Var(st.x)) = I32 /\ output = I32
      [] st.kind = "await"  -> asyncness

BlockTypes(scope, block, output, asyncness) ==
    /\ \A i \in 1..Len(block.stmts) :
            StmtTypes(scope, block.stmts[i], output, asyncness)
    /\ ExprType(scope, block.tail) = output

DistinctNames(inputs) ==
    \A i, j \in 1..Len(inputs) : i # j => inputs[i].name # inputs[j].name

(* An item rustc accepts without the attribute. *)
ValidFn(f) ==
    /\ f.kind = "fn"
    /\ DistinctNames(f.sig.inputs)
    /\ BlockTypes(f.sig.inputs, f.block, f.sig.output, f.sig.asyncness)

----------------------------------------------------------------------------
(* time_it: the expansion (lines 45-96). *)

Template == "[{}]: Execution time: {:?}"

Stmt(stmt, name, form, path, block, fargs) ==
    [stmt |-> stmt, name |-> name, form |-> form, path |-> path,
     block |-> block, fargs |-> fargs]

NoBlock == Block(<<>>, Var("-"))

LetNow(path) == Stmt("let", "__start", "now", path, NoBlock, <<>>)
LetAwait(block) == Stmt("let", "result", "async_move_await", "-", block, <<>>)
LetCall(block) == Stmt("let", "result", "closure_call", "-", block, <<>>)
LetElapsed == Stmt("let", "__duration", "elapsed", "__start", NoBlock, <<>>)
Macro(path, ident) ==
    Stmt("macro", "-", "event", path, NoBlock, <<Template, ident, "__duration">>)
TailExpr(name) == Stmt("tail", name, "path", "-", NoBlock, <<>>)

timed_fn_block_std_clock(asyncness, fn_block) ==
    IF asyncness
    THEN <<LetNow(StdInstant), LetAwait(fn_block), LetElapsed>>
    ELSE <<LetNow(StdInstant), LetCall(fn_block), LetElapsed>>

timed_fn_block_inline(asyncness, fn_block) ==
    <<LetNow(IF asyncness THEN TokioInstant ELSE StdInstant),
      Stmt("let", "result", "block", "-", fn_block, <<>>), LetElapsed>>

(* lines 54-66 *)
timed_fn_block(asyncness, fn_block) ==
    IF asyncness
    THEN <<LetNow(TokioInstant), LetAwait(fn_block), LetElapsed>>
    ELSE <<LetNow(StdInstant), LetCall(fn_block), LetElapsed>>

(* lines 69-85 *)
log_line_of(log_level, fn_name) ==
    CASE log_level = Trace -> Macro("tracing::trace", fn_name)
      [] log_level = Debug -> Macro("tracing::debug", fn_name)
      [] log_level = Info  -> Macro("tracing::info", fn_name)
      [] log_level = Warn  -> Macro("tracing::warn", fn_name)
      [] log_level = Error -> Macro("tracing::error", fn_name)

quote_fn_no_attrs(fn_attrs, fn_vis, fn_sig, timed_block, line) ==
    [attrs |-> <<>>, vis |-> fn_vis, sig |-> fn_sig,
     body |-> timed_block \o <<line>> \o <<TailExpr("result")>>]

quote_fn_log_first(fn_attrs, fn_vis, fn_sig, timed_block, line) ==
    [attrs |-> fn_attrs, vis |-> fn_vis, sig |-> fn_sig,
     body |-> <<timed_block[1], timed_block[2], line, timed_block[3],
                TailExpr("result")>>]

(* lines 87-95 *)
quote_fn(fn_attrs, fn_vis, fn_sig, timed_block, line) ==
    [attrs |-> fn_attrs, vis |-> fn_vis, sig |-> fn_sig,
     body |-> timed_block \o <<line>> \o <<TailExpr("result")>>]

NoOut == [attrs |-> <<>>, vis |-> "", sig |-> Sig(FALSE, "-", <<>>, I32), body |-> <<>>]
NoLine == TailExpr("-")

time_it ==
    /\ pc = "start"
    /\ IF item.kind # "fn"
       THEN /\ pc' = "syntax_error"
            /\ UNCHANGED <<timed, level, log_line, out>>
       ELSE LET block == timed_fn_block(item.sig.asyncness, item.block)
                log_level == LogLevel_parse(attr)
            IN  /\ timed' = block
                /\ level' = log_level
                /\ IF ~log_level.ok
                   THEN /\ pc' = "arg_error"
                        /\ UNCHANGED <<log_line, out>>
                   ELSE LET line == log_line_of(log_level.val, item.sig.ident)
                        IN  /\ log_line' = line
                            /\ out' = quote_fn(item.attrs, item.vis, item.sig,
                                               block, line)
                            /\ pc' = "emitted"
    /\ UNCHANGED <<attr, item, args, env, ip, bip, polls, clock, result, log, hist>>

----------------------------------------------------------------------------
(* rustc on the emitted function: name resolution and typing of the        *)
(* emitted statements, each in the scope of the bindings before it.        *)

RECURSIVE StmtsType(_, _, _, _)
StmtsType(scope, body, i, sig) ==
    IF i > Len(body) THEN FALSE
    ELSE LET st == body[i] IN
      CASE st.form = "now" ->
             StmtsType(Append(scope, Param(st.name, st.path)), body, i + 1, sig)
        [] st.form = "closure_call" ->
             /\ BlockTypes(scope, st.block, sig.output, FALSE)
             /\ StmtsType(Append(scope, Param(st.name, sig.output)), body, i + 1, sig)
        [] st.form = "async_move_await" ->
             /\ sig.asyncness
             /\ BlockTypes(scope, st.block, sig.output, TRUE)
             /\ StmtsType(Append(scope, Param(st.name, sig.output)), body, i + 1, sig)
        [] st.form = "block" ->
             /\ BlockTypes(scope, st.block, sig.output, sig.asyncness)
             /\ StmtsType(Append(scope, Param(st.name, sig.output)), body, i + 1, sig)
        [] st.form = "elapsed" ->
             /\ Bound(scope, st.path) /\ IsInstant(Lookup(scope, st.path).ty)
             /\ StmtsType(Append(scope, Param(st.name, "Duration")), body, i + 1, sig)
        [] st.form = "event" ->
             /\ Bound(scope, st.fargs[3])
             /\ StmtsType(scope, body, i + 1, sig)
        [] st.form = "path" ->
             /\ i = Len(body)
             /\ ExprType(scope, Var(st.name)) = sig.output

rustc ==
    /\ pc = "emitted"
    /\ pc' = IF StmtsType(out.sig.inputs, out.body, 1, out.sig)
             THEN "compiled" ELSE "rustc_error"
    /\ UNCHANGED <<attr, item, timed, level, log_line, out, args, env, ip, bip,
                   polls, clock, result, log, hist>>

----------------------------------------------------------------------------
(* One call of the emitted function. *)

Value(ty, v) == [ty |-> ty, v |-> v]
Binding(n, val) == [name |-> n, val |-> val]
NoValue == Value("-", 0)

I32Values == {0, 2, 3}

ArgValues(ty) ==
    IF ty = I32 THEN {Value(I32, n) : n \in I32Values} ELSE {Value(ty, 0)}

ArgTuples(inputs) ==
    {a \in [1..Len(inputs) -> UNION {ArgValues(t) : t \in {I32, StdInstant, TokioInstant}}] :
        \A i \in 1..Len(inputs) : a[i] \in ArgValues(inputs[i].ty)}

Bindings(inputs, a) == [i \in 1..Len(inputs) |-> Binding(inputs[i].name, a[i])]

Eval(scope, e) ==
    CASE e.op = "lit" -> Value(I32, 7)
      [] e.op = "var" -> Lookup(scope, e.x).val
      [] e.op = "add" -> Value(I32, Lookup(scope, e.x).val.v + Lookup(scope, e.y).val.v)

Call ==
    /\ pc = "compiled"
    /\ \E a \in ArgTuples(out.sig.inputs) :
          /\ args' = a
          /\ env' = Bindings(out.sig.inputs, a)
    /\ ip' = 1
    /\ clock' = 1
    /\ pc' = "run"
    /\ hist' = <<"call">>
    /\ UNCHANGED <<attr, item, timed, level, log_line, out, bip, polls, result, log>>

Cur == out.body[ip]

(* let __start = <clock>::now(); *)
LetStart ==
    /\ pc = "run" /\ Cur.form = "now"
    /\ env' = Append(env, Binding(Cur.name, Value(Cur.path, clock)))
    /\ ip' = ip + 1
    /\ hist' = Append(hist, "start")
    /\ UNCHANGED <<attr, item, pc, timed, level, log_line, out, args, bip, polls,
                   clock, result, log>>

(* let result = (|| body)();   let result = async move { body }.await; *)
EnterBody ==
    /\ pc = "run" /\ Cur.form \in {"closure_call", "async_move_await", "block"}
    /\ pc' = "body"
    /\ bip' = 1
    /\ polls' = 0
    /\ hist' = Append(hist, "enter")
    /\ UNCHANGED <<attr, item, timed, level, log_line, out, args, env, ip, clock,
                   result, log>>

BodyStmt == Cur.block.stmts[bip]

(* The body leaves with value v: a closure or an async block ends there    *)
(* and its value is bound; a `return` or `?` in a bare block leaves the    *)
(* function.                                                               *)
Leave(v, early) ==
    IF Cur.form = "block" /\ early
    THEN /\ result' = v
         /\ pc' = "returned"
         /\ hist' = Append(hist, "return")
         /\ UNCHANGED <<env, ip>>
    ELSE /\ env' = Append(env, Binding(Cur.name, v))
         /\ ip' = ip + 1
         /\ pc' = "run"
         /\ hist' = Append(hist, "done")
         /\ UNCHANGED result

BodyReturn ==
    /\ pc = "body" /\ bip <= Len(Cur.block.stmts) /\ BodyStmt.kind = "return"
    /\ Leave(Lookup(env, BodyStmt.x).val, TRUE)
    /\ clock' = clock + 1
    /\ UNCHANGED <<attr, item, timed, level, log_line, out, args, bip, polls, log>>

BodyTry ==
    /\ pc = "body" /\ bip <= Len(Cur.block.stmts) /\ BodyStmt.kind = "try"
    /\ IF Lookup(env, BodyStmt.x).val.v = 0
       THEN /\ Leave(Lookup(env, BodyStmt.x).val, TRUE)
            /\ UNCHANGED bip
       ELSE /\ bip' = bip + 1
            /\ UNCHANGED <<env, ip, pc, result, hist>>
    /\ clock' = clock + 1
    /\ UNCHANGED <<attr, item, timed, level, log_line, out, args, polls, log>>

(* An await point that is not ready: the future is suspended. *)
Suspend ==
    /\ pc = "body" /\ bip <= Len(Cur.block.stmts) /\ BodyStmt.kind = "await"
    /\ polls < MaxPolls
    /\ polls' = polls + 1
    /\ clock' = clock + 1
    /\ hist' = Append(hist, "suspend")
    /\ UNCHANGED <<attr, item, pc, timed, level, log_line, out, args, env, ip, bip,
                   result, log>>

Resume ==
    /\ pc = "body" /\ bip <= Len(Cur.block.stmts) /\ BodyStmt.kind = "await"
    /\ bip' = bip + 1
    /\ polls' = 0
    /\ clock' = clock + 1
    /\ UNCHANGED <<attr, item, pc, timed, level, log_line, out, args, env, ip,
                   result, log, hist>>

(* The caller drops the suspended future. *)
Cancel ==
    /\ pc = "body" /\ bip <= Len(Cur.block.stmts) /\ BodyStmt.kind = "await"
    /\ polls > 0
    /\ pc' = "dropped"
    /\ hist' = Append(hist, "drop")
    /\ UNCHANGED <<attr, item, timed, level, log_line, out, args, env, ip, bip,
                   polls, clock, result, log>>

BodyTail ==
    /\ pc = "body" /\ bip = Len(Cur.block.stmts) + 1
    /\ Leave(Eval(env, Cur.block.tail), FALSE)
    /\ clock' = clock + 1
    /\ UNCHANGED <<attr, item, timed, level, log_line, out, args, bip, polls, log>>

(* let __duration = __start.elapsed(); *)
LetDuration ==
    /\ pc = "run" /\ Cur.form = "elapsed"
    /\ env' = Append(env, Binding(Cur.name,
                  Value("Duration", clock - Lookup(env, Cur.path).val.v)))
    /\ ip' = ip + 1
    /\ hist' = Append(hist, "duration")
    /\ UNCHANGED <<attr, item, pc, timed, level, log_line, out, args, bip, polls,
                   clock, result, log>>

(* tracing::<level>!(template, stringify!(name), __duration); *)
Event ==
    /\ pc = "run" /\ Cur.form = "event"
    /\ log' = Append(log, [level |-> Cur.path, template |-> Cur.fargs[1],
                           name |-> Cur.fargs[2],
                           duration |-> Lookup(env, Cur.fargs[3]).val])
    /\ ip' = ip + 1
    /\ clock' = clock + 1
    /\ hist' = Append(hist, "log")
    /\ UNCHANGED <<attr, item, pc, timed, level, log_line, out, args, env, bip,
                   polls, result>>

(* result *)
ReturnResult ==
    /\ pc = "run" /\ Cur.form = "path"
    /\ result' = Lookup(env, Cur.name).val
    /\ pc' = "returned"
    /\ hist' = Append(hist, "return")
    /\ UNCHANGED <<attr, item, timed, level, log_line, out, args, env, ip, bip,
                   polls, clock, log>>

----------------------------------------------------------------------------
(* Inputs. *)

RECURSIVE CasingsFrom(_, _)
Casings(name) ==
    {[i \in 1..Len(name) |-> IF m[i] THEN to_ascii_uppercase(name[i])
                                     ELSE to_ascii_lowercase(name[i])] :
        m \in [1..Len(name) -> BOOLEAN]}

CasingsFrom(names, i) ==
    IF i > Len(names) THEN {} ELSE Casings(names[i]) \cup CasingsFrom(names, i + 1)

AllCasings == CasingsFrom(LogLevel, 1)

OtherStrings ==
    { <<>>, <<"v","e","r","b","o","s","e">>, <<"d","e","b","u">>,
      <<"d","e","b","u","g","g">>, <<" ","i","n","f","o">>, <<"w","a","r","n","!">>,
      <<"e","r","r","0","r">>, <<"5">> }

SomeTokens ==
    { LitStr(<<"d","e","b","u","g">>), LitStr(<<"I","N","F","O">>),
      LitStr(<<"v","e","r","b","o","s","e">>), LitInt, Ident, Comma }

Seqs(S, n) == UNION {[1..k -> S] : k \in 0..n}

AttrInputs ==
    {<<LitStr(s)>> : s \in AllCasings \cup OtherStrings} \cup Seqs(SomeTokens, MaxTokens)

LevelAttrs ==
    { <<>>, <<LitStr(<<"t","r","a","c","e">>)>>, <<LitStr(<<"D","e","b","u","g">>)>>,
      <<LitStr(<<"i","n","f","o">>)>>, <<LitStr(<<"W","A","R","N">>)>>,
      <<LitStr(<<"e","r","r","o","r">>), Comma>> }

ParamChoices ==
    { Param("a", I32), Param("result", I32), Param("__duration", I32),
      Param("__start", I32), Param("__start", StdInstant),
      Param("__start", TokioInstant) }

ParamLists == {ins \in Seqs(ParamChoices, MaxParams) : DistinctNames(ins)}

StmtChoices(ins) ==
    {Await} \cup {Return(ins[i].name) : i \in 1..Len(ins)}
            \cup {Try(ins[i].name) : i \in 1..Len(ins)}

Tails(ins) ==
    {Lit} \cup {Var(ins[i].name) : i \in 1..Len(ins)}
          \cup {Add(ins[1].name, ins[i].name) : i \in 2..Len(ins)}

ItemsOf(ins, bodies) ==
    {f \in {ItemFn(<<>>, "", Sig(as, "f", ins, ExprType(ins, tl)), Block(st, tl)) :
              as \in BOOLEAN, st \in bodies, tl \in Tails(ins)} :
        ValidFn(f)}

(* Any parameter names, a body of at most one statement. *)
BodyItems ==
    UNION {ItemsOf(ins, {<<>>} \cup {<<st>> : st \in StmtChoices(ins)}) :
             ins \in ParamLists}

AddBlock == Block(<<>>, Add("a", "b"))
AddInputs == <<Param("a", I32), Param("b", I32)>>

SigItems ==
    {ItemFn(at, v, Sig(as, id, AddInputs, I32), AddBlock) :
        at \in {<<>>, <<"inline">>, <<"must_use", "inline">>},
        v \in {"", "pub", "pub(crate)"},
        as \in BOOLEAN, id \in {"add", "f"}}

FewItems ==
    { ItemFn(<<>>, "pub", Sig(FALSE, "add", AddInputs, I32), AddBlock),
      ItemFn(<<"inline">>, "", Sig(TRUE, "fetch", <<Param("a", I32)>>, I32),
             Block(<<Await, Try("a")>>, Var("a"))),
      ItemFn(<<>>, "", Sig(FALSE, "first", AddInputs, I32),
             Block(<<Return("a")>>, Var("b"))),
      ItemStruct }

FewParamLists ==
    { <<>>, AddInputs, <<Param("__start", StdInstant)>>,
      <<Param("a", I32), Param("__start", TokioInstant)>> }

(* A few parameter lists, any body of at most MaxBodyLen statements. *)
RunItems ==
    UNION {ItemsOf(ins, Seqs(StmtChoices(ins), MaxBodyLen)) : ins \in FewParamLists}

----------------------------------------------------------------------------
InitWith(attrs, items) ==
    /\ attr \in attrs
    /\ item \in items
    /\ pc = "start"
    /\ timed = <<>>
    /\ level = Err("-")
    /\ log_line = NoLine
    /\ out = NoOut
    /\ args = <<>>
    /\ env = <<>>
    /\ ip = 0
    /\ bip = 0
    /\ polls = 0
    /\ clock = 0
    /\ result = NoValue
    /\ log = <<>>
    /\ hist = <<>>

Init == InitWith(LevelAttrs, SigItems \cup FewItems)
InitArgs == InitWith(AttrInputs, FewItems)
InitRun == InitWith({<<>>, <<LitStr(<<"w","a","r","n">>)>>, <<LitInt>>},
                    RunItems \cup {ItemStruct})
InitScope == InitWith({<<>>, <<Ident>>}, BodyItems \cup {ItemStruct})

Next ==
    \/ time_it
    \/ rustc
    \/ Call
    \/ LetStart
    \/ EnterBody
    \/ BodyReturn
    \/ BodyTry
    \/ Suspend
    \/ Resume
    \/ Cancel
    \/ BodyTail
    \/ LetDuration
    \/ Event
    \/ ReturnResult

Spec == Init /\ [][Next]_vars
SpecArgs == InitArgs /\ [][Next]_vars
SpecRun == InitRun /\ [][Next]_vars
SpecScope == InitScope /\ [][Next]_vars

----------------------------------------------------------------------------
(* Properties. *)

Expanded == pc \notin {"start", "syntax_error", "arg_error"}
Parsed == pc \notin {"start", "syntax_error"}

MultipleArguments == "Unexpected multiple macro arguments"

(* s spells name, each letter in either case. *)
Spells(s, name) ==
    /\ Len(s) = Len(name)
    /\ \A k \in 1..Len(name) :
          s[k] \in {to_ascii_uppercase(name[k]), to_ascii_lowercase(name[k])}

Recognised(s) == \E i \in 1..Len(LogLevel) : Spells(s, LogLevel[i])

Count(h, e) == Cardinality({i \in 1..Len(h) : h[i] = e})
Pos(h, e) == CHOOSE i \in 1..Len(h) : h[i] = e

(* C1: a single string literal that spells one of the five severity names  *)
(* in any mix of upper and lower case parses to the severity of that name. *)
C1_AnyCasingParses ==
    (Parsed /\ Len(attr) = 1 /\ attr[1].kind = "LitStr") =>
      \A i \in 1..Len(LogLevel) :
          Spells(attr[1].value, LogLevel[i]) => level = Ok(LogLevel[i])

C1_Witness ==
    /\ pc = "emitted"
    /\ attr = <<LitStr(<<"T","r","A","c","E">>)>>
    /\ level = Ok(Trace)

(* C2: an empty argument parses to Debug, the emitted function holds the   *)
(* tracing::debug! event and every record it logs is a Debug record.       *)
C2_EmptyIsDebug ==
    (Parsed /\ attr = <<>>) =>
      /\ level = Ok(Debug)
      /\ pc # "arg_error"
      /\ \A i \in 1..Len(out.body) :
            out.body[i].form = "event" => out.body[i].path = "tracing::debug"
      /\ \A i \in 1..Len(log) : log[i].level = "tracing::debug"

C2_Witness ==
    /\ attr = <<>>
    /\ pc = "returned"
    /\ Len(log) = 1
    /\ log[1].level = "tracing::debug"

(* Literals separated by single commas, a trailing comma allowed. *)
CommaSeparated(toks) ==
    \A i \in 1..Len(toks) :
        IF i % 2 = 1 THEN IsLiteral(toks[i]) ELSE toks[i].kind = "Comma"

NumLiterals(toks) == Cardinality({i \in 1..Len(toks) : IsLiteral(toks[i])})

AllStrings(toks) == \A i \in 1..Len(toks) : toks[i].kind \in {"LitStr", "Comma"}

(* C3 as stated: more than one comma-separated literal, whatever the       *)
(* literals are, fails with the multiple-arguments error.                  *)
C3_AsStated ==
    (Parsed /\ CommaSeparated(attr) /\ NumLiterals(attr) > 1) =>
      level = Err(MultipleArguments)

(* C3, amended: more than one comma-separated literal never yields a       *)
(* severity; the error is the multiple-arguments error when all of them    *)
(* are string literals, and the literal parser's error otherwise.          *)
C3_MultipleArgumentsFail ==
    (Parsed /\ CommaSeparated(attr) /\ NumLiterals(attr) > 1) =>
      /\ pc = "arg_error"
      /\ ~level.ok
      /\ AllStrings(attr) => level = Err(MultipleArguments)
      /\ ~AllStrings(attr) => level = Err("expected string literal")

C3_Witness ==
    /\ pc = "arg_error"
    /\ attr = <<LitStr(<<"d","e","b","u","g">>), Comma, LitStr(<<"I","N","F","O">>)>>
    /\ level = Err(MultipleArguments)

(* C4 as stated: parsing succeeds only for an empty argument or exactly    *)
(* one recognised string literal.                                          *)
C4_AsStated ==
    (Parsed /\ level.ok) =>
      \/ attr = <<>>
      \/ /\ Len(attr) = 1
         /\ attr[1].kind = "LitStr"
         /\ Recognised(attr[1].value)

(* C4, amended: parsing succeeds exactly when the argument is empty or is  *)
(* one recognised string literal, optionally followed by one trailing      *)
(* comma; every other token sequence ends the expansion with an error.     *)
C4_SuccessShapes ==
    Parsed =>
      /\ level.ok <=>
            \/ attr = <<>>
            \/ /\ Len(attr) \in {1, 2}
               /\ attr[1].kind = "LitStr"
               /\ Recognised(attr[1].value)
               /\ Len(attr) = 2 => attr[2].kind = "Comma"
      /\ ~level.ok <=> pc = "arg_error"
      /\ ~level.ok => out = NoOut

C4_Witness ==
    /\ pc = "arg_error"
    /\ attr = <<LitStr(<<"v","e","r","b","o","s","e">>)>>
    /\ level = Err("VariantNotFound")

(* C5: the emitted function carries the input's other attributes in the    *)
(* same order, its visibility and its whole signature.                     *)
C5_SignaturePreserved ==
    Expanded =>
      /\ out.attrs = item.attrs
      /\ out.vis = item.vis
      /\ out.sig = item.sig

C5_Witness ==
    /\ pc = "emitted"
    /\ item.attrs = <<"must_use", "inline">>
    /\ item.vis = "pub(crate)"
    /\ item.sig.asyncness
    /\ out.sig.ident = "add"

EventOf(l) ==
    CASE l = Trace -> "tracing::trace"
      [] l = Debug -> "tracing::debug"
      [] l = Info  -> "tracing::info"
      [] l = Warn  -> "tracing::warn"
      [] l = Error -> "tracing::error"

(* C6: the emitted body is, in this order, the timer start, the original   *)
(* body run (or awaited) into `result`, the elapsed duration, one event at *)
(* the parsed severity with the fixed template, the function's name and    *)
(* the duration, and `result` as the value.                                *)
C6_BodyOrder ==
    Expanded =>
      /\ Len(out.body) = 5
      /\ out.body[1].stmt = "let" /\ out.body[1].form = "now"
      /\ out.body[1].name = "__start"
      /\ out.body[2].stmt = "let" /\ out.body[2].name = "result"
      /\ out.body[2].form \in {"closure_call", "async_move_await"}
      /\ out.body[2].block = item.block
      /\ out.body[3].stmt = "let" /\ out.body[3].form = "elapsed"
      /\ out.body[3].name = "__duration" /\ out.body[3].path = "__start"
      /\ out.body[4].stmt = "macro" /\ out.body[4].form = "event"
      /\ out.body[4].path = EventOf(level.val)
      /\ out.body[4].fargs = <<"[{}]: Execution time: {:?}", item.sig.ident, "__duration">>
      /\ out.body[5].stmt = "tail" /\ out.body[5].name = "result"

C6_Witness ==
    /\ pc = "emitted"
    /\ item.sig.asyncness
    /\ level = Ok(Warn)
    /\ out.body[4].path = "tracing::warn"

(* C7: a suspendable function gets the tokio clock and an awaited async    *)
(* block, a synchronous one the std clock and a called closure, whatever   *)
(* the severity; no emitted body mixes the two.                            *)
C7_VariantBySuspendQualifier ==
    Expanded =>
      \A i \in 1..Len(out.body) :
        /\ out.body[i].form = "now" =>
              out.body[i].path = IF item.sig.asyncness THEN TokioInstant ELSE StdInstant
        /\ out.body[i].stmt = "let" /\ out.body[i].name = "result" =>
              out.body[i].form = IF item.sig.asyncness THEN "async_move_await"
                                                       ELSE "closure_call"

C7_Witness ==
    /\ pc = "emitted"
    /\ item.sig.asyncness
    /\ level = Ok(Error)
    /\ out.body[1].path = TokioInstant
    /\ out.body[2].form = "async_move_await"

(* The value the unannotated function returns for the arguments a. *)
RECURSIVE OrigRun(_, _, _)
OrigRun(scope, block, i) ==
    IF i > Len(block.stmts) THEN Eval(scope, block.tail)
    ELSE LET st == block.stmts[i] IN
         CASE st.kind = "return" -> Lookup(scope, st.x).val
           [] st.kind = "try" ->
                IF Lookup(scope, st.x).val.v = 0 THEN Lookup(scope, st.x).val
                ELSE OrigRun(scope, block, i + 1)
           [] st.kind = "await" -> OrigRun(scope, block, i + 1)

OrigEval(f, a) == OrigRun(Bindings(f.sig.inputs, a), f.block, 1)

(* C8: a call of the emitted function returns the value the original body  *)
(* returns for the same arguments.                                         *)
C8_SameResult ==
    pc = "returned" => result = OrigEval(item, args)

(* C9: a call in which the body completes logs exactly one record, after   *)
(* the body has completed and the duration has been computed and before    *)
(* the call returns.                                                       *)
C9_OneLogAfterBody ==
    /\ Len(log) <= 1
    /\ Count(hist, "log") = Len(log)
    /\ Count(hist, "log") = 1 =>
          /\ Count(hist, "done") = 1 /\ Count(hist, "duration") = 1
          /\ Pos(hist, "start") < Pos(hist, "enter")
          /\ Pos(hist, "enter") < Pos(hist, "done")
          /\ Pos(hist, "done") < Pos(hist, "duration")
          /\ Pos(hist, "duration") < Pos(hist, "log")
    /\ pc = "returned" =>
          /\ Count(hist, "done") = 1
          /\ Len(log) = 1
          /\ Pos(hist, "log") < Pos(hist, "return")
          /\ hist[Len(hist)] = "return"

C9_Witness ==
    /\ pc = "returned"
    /\ item.sig.asyncness
    /\ Len(item.block.stmts) = 2
    /\ item.block.stmts[1].kind = "await"
    /\ item.block.stmts[2].kind = "return"
    /\ Count(hist, "suspend") = 2
    /\ Len(log) = 1

(* C10: while the original body runs, every parameter name resolves to the *)
(* argument the caller supplied.                                           *)
C10_ParametersNotShadowed ==
    pc = "body" =>
      \A i \in 1..Len(out.sig.inputs) :
          Lookup(env, out.sig.inputs[i].name).val = args[i]

====
